---- MODULE Spec2Model ----
(***************************************************************************)
(* Active Protocol Discovery beacon: the probe -> listen -> analyse ->     *)
(* SPRT loop of ActiveBeacon.run, the ResponseAnalyzer it scores with and  *)
(* the Wald SPRT it drives.                                                *)
(*                                                                         *)
(* Numbers.  Python floats are modelled as fixed-point integers:           *)
(*   - power values (a capture's mean PSD, baseline mean and std) are      *)
(*     integers in units of 0.1, so 1.0 is 10 and 1.3 is 13;               *)
(*   - anomaly scores, log-likelihood ratios, cumulative log-odds and the  *)
(*     Wald thresholds are integers in units of 0.001;                     *)
(*   - the error rates alpha and beta are integers in percent;             *)
(*   - a quotient is truncated toward zero to the fixed-point grid.        *)
(* A captured IQ buffer is represented by the one scalar the analysis      *)
(* keeps of it, the mean of its Welch PSD; the all-zero buffer has mean    *)
(* PSD 0.                                                                  *)
(***************************************************************************)
EXTENDS Integers, Sequences, FiniteSets, TLC

(* ------------------------------ bounds -------------------------------- *)

\* largest max_iterations a configuration of the model asks for
MaxIterations == 3

\* largest baseline_samples a configuration of the model asks for
MaxBaselineSamples == 3

\* number of calls the SPRT and analyzer drivers make on one object
MaxCalls == 3

\* number of run() calls made on one ActiveBeacon
MaxRuns == 2

\* longest "primes" parameter of the prime-sequence probes that are rendered
MaxPrimes == 3

(* ------------------------- input value sets --------------------------- *)

\* Optional[...] = None: a value outside every numeric domain of the model
None == -1

\* sprt_alpha / sprt_beta in percent; 0 and 100 are outside (0,1)
Rates == {0, 1, 5, 50, 60, 100}

\* the rates the session model is configured with
SessionRates == {0, 1, 5, 60}

\* anomaly_threshold_sigma values
Thresholds == {1, 3}

\* mean PSD of a successful baseline capture
BaselinePowers == {9, 11}

\* mean PSD of a successful response capture
ResponsePowers == {10, 13}

\* LLR increments fed to the SPRT driver (units of 0.001)
LLRInputs == {-3000, -1000, 0, 1000, 3000}

\* baseline_mean / baseline_std a ResponseAnalyzer is constructed with
AnalyzerMeans == {None, 0, 10}
AnalyzerStds == {None, 0, 1, 2}

\* mean PSD of the buffers handed to the analyzer driver
AnalyzerPowers == {0, 10, 11, 13, 16}

\* probe_duration and listen_duration values, in seconds
ProbeDurations == {-5, 0, 5}
ListenDurations == {0, 15}

(* ---------------------------- arithmetic ------------------------------ *)

\* float division a / b (b > 0), truncated toward zero
TruncDiv(a, b) == IF a >= 0 THEN a \div b ELSE -((-a) \div b)

\* x * 1000: a number in the model's 0.001 fixed-point unit
Milli(x) == 1000 * x

\* x + 1e-12, as a count of epsilons.  The epsilon is far below the grid; it
\* is kept as a positive quantity a thousand times smaller than one grid unit,
\* so that x + eps > x and 0 + eps > 0 as in the code.
PlusEps(x) == 1000 * x + 1

\* the numerator n of a quotient n / (x + eps), in the same count of epsilons
OverEps(n) == 1000 * n

RECURSIVE SqrtFrom(_, _)
SqrtFrom(v, r) == IF (r + 1) * (r + 1) > v THEN r ELSE SqrtFrom(v, r + 1)

\* np.sqrt on the grid: the largest r with r*r <= v
ISqrt(v) == SqrtFrom(v, 0)

RECURSIVE SeqSum(_)
SeqSum(s) == IF s = <<>> THEN 0 ELSE Head(s) + SeqSum(Tail(s))

\* round(1000 * ln n) for the integers the rates of the model lead to
Ln1000(n) ==
  CASE n = 1  -> 0
    [] n = 5  -> 1609
    [] n = 40 -> 3689
    [] n = 50 -> 3912
    [] n = 60 -> 4094
    [] n = 95 -> 4554
    [] n = 99 -> 4595

(* --------------------------- APDConfig -------------------------------- *)

\* a validation that forgets the durations
ValidateRatesOnly(c) ==
  IF ~(0 < c.sprt_alpha /\ c.sprt_alpha < 100) THEN "ValueError"
  ELSE IF ~(0 < c.sprt_beta /\ c.sprt_beta < 100) THEN "ValueError"
  ELSE IF c.max_iterations < 1 THEN "ValueError"
  ELSE IF c.licence_gate THEN "RuntimeError"
  ELSE "none"

\* APDConfig.validate: the exception it raises, or "none"
Validate(c) ==
  IF ~(0 < c.sprt_alpha /\ c.sprt_alpha < 100) THEN "ValueError"
  ELSE IF ~(0 < c.sprt_beta /\ c.sprt_beta < 100) THEN "ValueError"
  ELSE IF c.max_iterations < 1 THEN "ValueError"
  ELSE IF c.probe_duration <= 0 THEN "ValueError"
  ELSE IF c.listen_duration <= 0 THEN "ValueError"
  ELSE IF c.licence_gate THEN "RuntimeError"
  ELSE "none"

(* ------------------------- ResponseAnalyzer --------------------------- *)

\* set_baseline: np.mean of the per-capture mean PSD values
BaselineMeanOf(power_samples) ==
  TruncDiv(SeqSum(power_samples), Len(power_samples))

\* set_baseline: np.std (population standard deviation) of the same values
BaselineStdOf(power_samples) ==
  LET m  == BaselineMeanOf(power_samples)
      sq == [i \in 1..Len(power_samples) |->
               (power_samples[i] - m) * (power_samples[i] - m)]
  IN  ISqrt(TruncDiv(SeqSum(sq), Len(power_samples)))

HasBaseline(bm, bs) == bm # None /\ bs # None

\* the anomaly score without the epsilon in its denominator
AnomalyScoreNoEps(bm, bs, power_mean) ==
  IF bm # None /\ bs # None
  THEN IF bs = 0 THEN 0 ELSE TruncDiv(Milli(power_mean - bm), bs)
  ELSE 0

\* analyze, lines 155-162: (power_mean - baseline_mean) / (baseline_std + eps)
AnomalyScore(bm, bs, power_mean) ==
  IF HasBaseline(bm, bs)
  THEN TruncDiv(Milli(OverEps(power_mean - bm)), PlusEps(bs))
  ELSE 0

\* analyze, lines 155-162: anomaly_score > anomaly_threshold
IsAnomaly(bm, bs, thr, power_mean) ==
  IF HasBaseline(bm, bs)
  THEN AnomalyScore(bm, bs, power_mean) > Milli(thr)
  ELSE FALSE

\* analyze: the ResponseMetrics of a response whose mean PSD is power_mean
Analyze(bm, bs, thr, probe_id, power_mean) ==
  [probe_id      |-> probe_id,
   power_mean    |-> power_mean,
   anomaly_score |-> AnomalyScore(bm, bs, power_mean),
   is_anomaly    |-> IsAnomaly(bm, bs, thr, power_mean)]

\* a wrong LLR: the term mu_diff ** 2 / 2 is added instead of subtracted
ComputeLLRPlus(bm, bs, thr, metrics) ==
  IF ~HasBaseline(bm, bs) THEN 0
  ELSE LET y        == metrics.power_mean
           h1_mean  == bm + thr * bs
           variance == bs * bs
           mu_diff  == h1_mean - bm
       IN  TruncDiv(Milli(OverEps(2 * y * mu_diff + mu_diff * mu_diff)),
                    2 * PlusEps(variance))

\* compute_llr_from_metrics, lines 296-315.  The code's
\*   (y * mu_diff - 0.5 * mu_diff ** 2) / (variance + 1e-12)
\* is computed with numerator and denominator both doubled.
ComputeLLR(bm, bs, thr, metrics) ==
  IF ~HasBaseline(bm, bs) THEN 0
  ELSE LET y        == metrics.power_mean
           h1_mean  == bm + thr * bs
           variance == bs * bs
           mu_diff  == h1_mean - bm
       IN  TruncDiv(Milli(OverEps(2 * y * mu_diff - mu_diff * mu_diff)),
                    2 * PlusEps(variance))

\* a fallback that logs nothing
NoBaselineSilent(bm, bs, msg) == <<>>

\* the warning each of analyze and compute_llr_from_metrics logs without a
\* baseline (lines 162 and 297)
NoBaselineLog(bm, bs, msg) ==
  IF HasBaseline(bm, bs) THEN <<>> ELSE <<[level |-> "WARNING", msg |-> msg]>>

(* ----------------------------- WaldSPRT ------------------------------- *)

\* the upper threshold with its ratio inverted
UpperThresholdInverted(alpha, beta) == Ln1000(alpha) - Ln1000(100 - beta)

\* Wald's upper threshold A = ln((1 - beta) / alpha)
UpperThreshold(alpha, beta) == Ln1000(100 - beta) - Ln1000(alpha)

\* Wald's lower threshold B = ln(beta / (1 - alpha))
LowerThreshold(alpha, beta) == Ln1000(beta) - Ln1000(100 - alpha)

\* WaldSPRT(alpha, beta)
WaldSPRT(alpha, beta) ==
  [alpha |-> alpha, beta |-> beta,
   A |-> UpperThreshold(alpha, beta), B |-> LowerThreshold(alpha, beta)]

\* self.sprt = None
NoSPRT == [alpha |-> None, beta |-> None]

\* sprt.new_state()
NewState ==
  [log_likelihood_ratio |-> 0, steps |-> 0, decision |-> "pending",
   history |-> <<>>]

\* the state before new_state() is called
NoState == [decision |-> "none"]

\* Decide with both threshold tests strict
DecideStrict(w, cumulative) ==
  IF cumulative > w.A THEN "H1"
  ELSE IF cumulative < w.B THEN "H0"
  ELSE "pending"

\* the decision update makes after adding the increment
Decide(w, cumulative) ==
  IF cumulative >= w.A THEN "H1"
  ELSE IF cumulative <= w.B THEN "H0"
  ELSE "pending"

\* an update that accepts a terminal state
UpdateNeverRaises(st) == FALSE

\* sprt.update(state, llr) raises on a terminal state
UpdateRaises(st) == st.decision # "pending"

\* an update that forgets to count the step
UpdateNoCount(w, st, llr) ==
  LET cumulative == st.log_likelihood_ratio + llr
  IN  [log_likelihood_ratio |-> cumulative,
       steps                |-> st.steps,
       decision             |-> IF cumulative >= w.A THEN "H1"
                                ELSE IF cumulative <= w.B THEN "H0"
                                ELSE "pending",
       history              |-> Append(st.history, llr)]

\* sprt.update(state, llr) on a pending state
Update(w, st, llr) ==
  LET cumulative == st.log_likelihood_ratio + llr
  IN  [log_likelihood_ratio |-> cumulative,
       steps                |-> st.steps + 1,
       decision             |-> Decide(w, cumulative),
       history              |-> Append(st.history, llr)]

\* sprt.is_decided(state)
IsDecided(st) == st.decision \in {"H0", "H1"}

(* ---------------------------- reporting ------------------------------- *)

\* a summary that names every decision other than H1 the null hypothesis
DecisionNameNullDefault(decision) ==
  IF decision = "H1" THEN "H1 (Adaptive)" ELSE "H0 (Null)"

\* _save_session_summary, line 380.  The code's decision values 1, 0 and
\* anything else are the model's "H1", "H0" and "pending".
DecisionName(decision) ==
  IF decision = "H1" THEN "H1 (Adaptive)"
  ELSE IF decision = "H0" THEN "H0 (Null)"
  ELSE "Undecided"

\* main, lines 448-453
MainReport(decision) ==
  IF decision = "H1" THEN "RESULT: Adaptive response detected (H1)"
  ELSE IF decision = "H0" THEN "RESULT: Null hypothesis (H0)"
  ELSE "RESULT: Undecided (max iterations reached)"

(* --------------------------- ProbeLibrary ----------------------------- *)

\* a wrong library: the silence control is scored above the chirps
StandardLibrarySilenceHigh ==
  << [type |-> "hydrogen_pulse",     kl_score |-> 25],
     [type |-> "schumann_am",        kl_score |-> 30],
     [type |-> "frequency_sweep",    kl_score |-> 20],
     [type |-> "prime_sequence",     kl_score |-> 28,
      primes |-> << 2, 3, 5, 7, 11, 13, 17, 19, 23, 29 >>],
     [type |-> "fibonacci_sequence", kl_score |-> 26],
     [type |-> "golden_ratio",       kl_score |-> 24],
     [type |-> "chirp_up",           kl_score |-> 18],
     [type |-> "chirp_down",         kl_score |-> 18],
     [type |-> "silence",            kl_score |-> 19] >>

\* get_standard_library: type and kl_score (in tenths) of each probe, in order
StandardLibrary ==
  << [type |-> "hydrogen_pulse",     kl_score |-> 25],
     [type |-> "schumann_am",        kl_score |-> 30],
     [type |-> "frequency_sweep",    kl_score |-> 20],
     [type |-> "prime_sequence",     kl_score |-> 28,
      primes |-> << 2, 3, 5, 7, 11, 13, 17, 19, 23, 29 >>],
     [type |-> "fibonacci_sequence", kl_score |-> 26],
     [type |-> "golden_ratio",       kl_score |-> 24],
     [type |-> "chirp_up",           kl_score |-> 18],
     [type |-> "chirp_down",         kl_score |-> 18],
     [type |-> "silence",            kl_score |-> 1] >>

\* policy.select(history): the KL-optimal policy takes the probe of largest
\* kl_score, the first one on a tie
PolicySelect(probes, hist) ==
  LET best == CHOOSE i \in 1..Len(probes) :
                /\ \A j \in 1..Len(probes) : probes[j].kl_score <= probes[i].kl_score
                /\ \A j \in 1..(i - 1) : probes[j].kl_score < probes[i].kl_score
  IN  probes[best]

\* self.history before the first iteration
NoProbe == [type |-> "none", kl_score |-> 0]

NoMetrics == [probe_id |-> None]

NoResponse == [ok |-> FALSE, power |-> None]

\* np.zeros(100, dtype=np.int8): the zero observation has mean PSD 0
ZeroObservation == 0

\* _probe_generators, lines 90-100: the probe types that have a generator
GeneratorTypes ==
  {"hydrogen_pulse", "schumann_am", "frequency_sweep", "prime_sequence",
   "fibonacci_sequence", "golden_ratio", "chirp_up", "chirp_down", "silence"}

\* hlb.constants.PRIMES, the first primes
Primes == << 2, 3, 5, 7, 11, 13, 17, 19, 23, 29, 31, 37, 41, 43, 47 >>

\* seq[:n]
Prefix(seq, n) == SubSeq(seq, 1, IF n < Len(seq) THEN n ELSE Len(seq))

\* the sample rate self.sr of the model's ProbeLibrary, in Hz: a pulse of
\* 0.1 s is 2 samples long
SampleRate == 20

\* int(self.sr * duration), duration in ms
NSamples(d) == TruncDiv(SampleRate * d, 1000)

\* custom_probe, lines 308-333: a probe of type CUSTOM
CustomProbe(kl_score) == [type |-> "custom", kl_score |-> kl_score]

\* a probe of type PRIME_SEQUENCE with its "primes" parameter
PrimeProbe(primes) ==
  [type |-> "prime_sequence", kl_score |-> 28, primes |-> primes]

\* params.get("primes", PRIMES[:15])
ParamPrimes(p) ==
  IF "primes" \in DOMAIN p THEN p.primes ELSE Prefix(Primes, 15)

\* a rendered buffer: the in-phase samples (the quadrature samples are zero),
\* the indices that were assigned, and whether the samples are those of a
\* waveform of hlb.waveforms that the model does not follow
Buffer(n, signal, written, opaque) ==
  [n_samples |-> n, signal |-> signal, written |-> written, opaque |-> opaque]

\* np.zeros(n_samples)
Zeros(n) == [j \in 1..n |-> 0]

\* _silence, lines 303-306
Silence(d) == Buffer(NSamples(d), Zeros(NSamples(d)), {}, FALSE)

\* the generators built on hlb.waveforms: a buffer of n_samples samples
Waveform(d) == Buffer(NSamples(d), <<>>, {}, TRUE)

\* _prime_sequence, line 232: min(0.1, p / 10.0), in ms
PulseDuration(p) == IF 100 < 100 * p THEN 100 ELSE 100 * p

\* a wrong end of pulse: not clipped at the end of the buffer
PulseEndUnclipped(t, p, n) == TruncDiv(SampleRate * (t + PulseDuration(p)), 1000)

\* _prime_sequence, line 234: the end of the pulse that begins at t ms
PulseEnd(t, p, n) ==
  LET e == TruncDiv(SampleRate * (t + PulseDuration(p)), 1000)
  IN  IF e < n THEN e ELSE n

\* _prime_sequence, lines 230-237: the loop, from time t ms and index idx on;
\* signal[start:end] = 1.0 assigns the samples start .. end-1, counted from 0
RECURSIVE PrimeLoop(_, _, _, _, _)
PrimeLoop(buf, t, idx, d, primes) ==
  IF t < d /\ idx <= Len(primes)
  THEN LET p     == primes[idx]
           start == TruncDiv(SampleRate * t, 1000)
           end   == PulseEnd(t, p, buf.n_samples)
       IN  PrimeLoop(
             [buf EXCEPT
                !.signal  = [j \in 1..Len(@) |->
                               IF start < j /\ j <= end THEN 1 ELSE @[j]],
                !.written = @ \cup start..(end - 1)],
             t + 1000 * p, idx + 1, d, primes)
  ELSE buf

\* _prime_sequence, lines 222-239
PrimeSequence(d, primes) == PrimeLoop(Silence(d), 0, 1, d, primes)

\* a wrong lookup: a probe type without a generator is passed over
GenerateErrorSkips(p, d) == "none"

\* generate_iq, lines 180-182: the exception it raises, or "none"
GenerateError(p, d) ==
  IF p.type \notin GeneratorTypes THEN "ValueError" ELSE "none"

\* generate_iq, line 184: the buffer the generator of the probe returns
GenerateIQ(p, d) ==
  CASE p.type = "prime_sequence" -> PrimeSequence(d, ParamPrimes(p))
    [] p.type = "silence"        -> Silence(d)
    [] OTHER                     -> Waveform(d)

(* ------------------------------ state --------------------------------- *)

VARIABLES
  cfg,               \* the APDConfig
  pc,                \* where the driver stands
  error,             \* the exception raised, "none" if none
  baseline_mean,     \* ResponseAnalyzer.baseline_mean
  baseline_std,      \* ResponseAnalyzer.baseline_std
  baseline_samples,  \* capture_baseline's list of successful captures
  i,                 \* capture_baseline's loop index
  sprt,              \* self.sprt
  state,             \* the SPRT state `state` of run()
  history,           \* self.history: (probe, metrics) pairs
  probe_history,     \* run()'s probe_history
  iteration,         \* run()'s loop index; the call count of the drivers
  probe,             \* the probe selected in this iteration
  response,          \* the capture of this iteration
  metrics,           \* the ResponseMetrics of this iteration
  llr,               \* the LLR increment of this iteration
  result,            \* the APDResult run() returns
  summary,           \* the "result" object of the session summary
  report,            \* the RESULT line main() prints
  log,               \* logger records of level WARNING and above
  hw_status,         \* run()'s hw_status, the reading of check_hardware
  events,            \* the calls this run() has made, in order
  runs,              \* the number of run() calls on this object
  probes,            \* self.probes; the list get_standard_library returned
  probe_iq,          \* the buffer generate_iq returned
  duration,          \* the duration generate_iq was called with, in ms
  tx,                \* tx_process until the capture begins: running or exited
  files,             \* the IQ files of the temp directories
  sessions           \* the ActiveBeacon objects that run side by side

vars == << cfg, pc, error, baseline_mean, baseline_std, baseline_samples, i,
           sprt, state, history, probe_history, iteration, probe, response,
           metrics, llr, result, summary, report, log, hw_status, events, runs,
           probes, probe_iq, duration, tx, files, sessions >>

analyzerVars == << baseline_mean, baseline_std, baseline_samples, i >>
sprtVars     == << sprt, state >>
loopVars     == << history, probe_history, iteration, probe, response, metrics, llr >>
outVars      == << result, summary, report >>
traceVars    == << hw_status, events, runs >>

libraryVars  == << probes, probe_iq, duration >>
sharedVars   == << files, sessions >>

NoStatus == [ready |-> "none"]

\* no buffer has been rendered
NoBuffer == [n_samples |-> None]

\* no transmission in flight: transmit returned no process, or the process
\* has exited
NoProcess == "none"

NoResult == [decision |-> "none"]

LogRecord(level, msg) == [level |-> level, msg |-> msg]

\* an APDConfig with the fields the model follows; the durations are the
\* defaults, in seconds, and the licence gate is open as main() opens it
Config(alpha, beta, max_iterations, thr, n) ==
  [sprt_alpha |-> alpha, sprt_beta |-> beta, max_iterations |-> max_iterations,
   anomaly_threshold_sigma |-> thr, baseline_samples |-> n,
   probe_duration |-> 5, listen_duration |-> 15, licence_gate |-> FALSE]

\* the same APDConfig with other durations; licence_gate is the condition
\* legal_check, a carrier within 1 MHz of the hydrogen line and
\* require_ham_license_confirm
ConfigWith(c, probe_duration, listen_duration, licence_gate) ==
  [c EXCEPT !.probe_duration = probe_duration,
            !.listen_duration = listen_duration,
            !.licence_gate = licence_gate]

\* everything but cfg and pc, as ActiveBeacon.__init__ leaves it
FreshSession ==
  /\ error = "none"
  /\ baseline_mean = None /\ baseline_std = None
  /\ baseline_samples = <<>> /\ i = 0
  /\ sprt = NoSPRT /\ state = NoState
  /\ history = <<>> /\ probe_history = <<>> /\ iteration = 0
  /\ probe = NoProbe /\ response = NoResponse /\ metrics = NoMetrics
  /\ llr = 0
  /\ result = NoResult /\ summary = NoResult /\ report = "none"
  /\ log = <<>>
  /\ hw_status = NoStatus /\ events = <<>> /\ runs = 0
  /\ probes = <<>> /\ probe_iq = NoBuffer /\ duration = 0
  /\ tx = NoProcess

\* one session on its own: no temp file written and no other session
Fresh ==
  /\ FreshSession
  /\ files = <<>> /\ sessions = <<>>

\* the configurations a caller may hand to ActiveBeacon
Configs ==
  { ConfigWith(Config(a, b, m, t, n), pd, ld, g) :
      a \in SessionRates, b \in SessionRates,
      m \in 0..MaxIterations, t \in Thresholds,
      n \in 0..MaxBaselineSamples,
      pd \in ProbeDurations, ld \in ListenDurations, g \in BOOLEAN }

Init ==
  /\ cfg \in Configs
  /\ pc = "new"
  /\ Fresh

(* --------------------------- ActiveBeacon ----------------------------- *)

\* __init__, lines 71-108
Construct ==
  /\ pc = "new"
  /\ IF Validate(cfg) # "none"
     THEN error' = Validate(cfg) /\ pc' = "failed"
     ELSE error' = error /\ pc' = "idle"
  /\ sprt' = NoSPRT
  /\ probes' = IF Validate(cfg) # "none" THEN probes ELSE StandardLibrary
  /\ history' = <<>>
  /\ UNCHANGED << probe_iq, duration, tx, sharedVars, cfg, analyzerVars, state, probe_history, iteration, probe,
                  response, metrics, llr, outVars, log, traceVars >>

\* check_hardware, lines 124-150: the warnings logged for a reading
HardwareLog(hackrf_ok, rtlsdr_ok) ==
  (IF hackrf_ok /\ rtlsdr_ok THEN <<>>
   ELSE <<LogRecord("WARNING", "Missing required hardware!")>>)
  \o (IF hackrf_ok THEN <<>> ELSE <<LogRecord("WARNING", "HackRF One not found")>>)
  \o (IF rtlsdr_ok THEN <<>> ELSE <<LogRecord("WARNING", "RTL-SDR not found")>>)

\* a wrong "ready": the transmit path alone
HardwareReadyTransmitOnly(hackrf_ok, rtlsdr_ok) == hackrf_ok

\* check_hardware: the "ready" entry of the status it returns
HardwareReady(hackrf_ok, rtlsdr_ok) == hackrf_ok /\ rtlsdr_ok

\* run, lines 214-217
CheckHardware ==
  /\ pc = "idle"
  /\ \E hackrf_ok \in BOOLEAN, rtlsdr_ok \in BOOLEAN :
       /\ hw_status' = [hackrf |-> hackrf_ok, rtlsdr |-> rtlsdr_ok,
                        ready |-> HardwareReady(hackrf_ok, rtlsdr_ok)]
       /\ log' = log \o HardwareLog(hackrf_ok, rtlsdr_ok)
       /\ IF hw_status'.ready
          THEN pc' = "baseline_start" /\ error' = error
          ELSE pc' = "aborted" /\ error' = "RuntimeError"
  /\ events' = Append(events, "check_hardware")
  /\ runs' = runs + 1
  /\ UNCHANGED << libraryVars, tx, sharedVars, cfg, analyzerVars, sprtVars, loopVars, outVars >>

\* capture_baseline, lines 165-171
BaselineStart ==
  /\ pc = "baseline_start"
  /\ \E available \in BOOLEAN :
       IF available
       THEN /\ pc' = "baseline"
            /\ UNCHANGED << error, log >>
       ELSE /\ pc' = "aborted"
            /\ error' = "RuntimeError"
            /\ log' = Append(log, LogRecord("ERROR", "RTL-SDR not available"))
  /\ baseline_samples' = <<>>
  /\ i' = 0
  /\ events' = Append(events, "monitor_available")
  /\ UNCHANGED << libraryVars, tx, sharedVars, cfg, baseline_mean, baseline_std, sprtVars, loopVars, outVars,
                  hw_status, runs >>

\* capture_baseline, lines 173-192: one pass of the capture loop
CaptureBaselineSample ==
  /\ pc = "baseline"
  /\ i < cfg.baseline_samples
  /\ \/ \E power \in BaselinePowers :
          /\ baseline_samples' = Append(baseline_samples, power)
          /\ log' = log
     \/ /\ baseline_samples' = baseline_samples
        /\ log' = Append(log, LogRecord("WARNING", "Failed to capture baseline sample"))
  /\ i' = i + 1
  /\ events' = Append(events, "baseline_capture")
  /\ UNCHANGED << libraryVars, tx, sharedVars, cfg, pc, error, baseline_mean, baseline_std, sprtVars,
                  loopVars, outVars, hw_status, runs >>

\* a wrong sufficiency test: one capture is taken for a baseline
EnoughBaselineOne(samples) == Len(samples) >= 1

\* capture_baseline, line 194: are there captures enough for a baseline
EnoughBaseline(samples) == Len(samples) >= 2

\* a wrong caller: run() goes on whatever capture_baseline returned
BaselineOutcomeIgnored(established) == "sprt_init"

\* run, lines 220-221: where run() goes on what capture_baseline returned
BaselineOutcome(established) ==
  IF established THEN "sprt_init" ELSE "aborted"

\* capture_baseline, lines 194-200, and run, lines 220-221
FinishBaseline ==
  /\ pc = "baseline"
  /\ i >= cfg.baseline_samples
  /\ IF EnoughBaseline(baseline_samples)
     THEN /\ baseline_mean' = BaselineMeanOf(baseline_samples)
          /\ baseline_std' = BaselineStdOf(baseline_samples)
          /\ events' = Append(events, "set_baseline")
          /\ pc' = BaselineOutcome(TRUE)
          /\ UNCHANGED << error, log >>
     ELSE /\ pc' = BaselineOutcome(FALSE)
          /\ error' = IF pc' = "aborted" THEN "RuntimeError" ELSE error
          /\ log' = Append(log, LogRecord("ERROR", "Failed to capture sufficient baseline samples"))
          /\ UNCHANGED << baseline_mean, baseline_std, events >>
  /\ UNCHANGED << libraryVars, tx, sharedVars, cfg, baseline_samples, i, sprtVars, loopVars, outVars,
                  hw_status, runs >>

\* the statements of the loop body of run(), lines 248-308, in program order
LoopSteps == << "select", "render", "transmit", "listen", "analyze", "update" >>

\* a wrong order: the probe is transmitted only after the listening window
StepAfterListenFirst(step) ==
  CASE step = "select"   -> "render"
    [] step = "render"   -> "listen"
    [] step = "listen"   -> "transmit"
    [] step = "transmit" -> "analyze"
    [] step = "analyze"  -> "update"

\* the statement run() executes after a statement of the loop body
StepAfter(step) ==
  LoopSteps[(CHOOSE k \in 1..(Len(LoopSteps) - 1) : LoopSteps[k] = step) + 1]

\* run, lines 223-243
InitSPRT ==
  /\ pc = "sprt_init"
  /\ sprt' = WaldSPRT(cfg.sprt_alpha, cfg.sprt_beta)
  /\ state' = NewState
  /\ probe_history' = <<>>
  /\ iteration' = 0
  /\ pc' = IF 0 < cfg.max_iterations THEN "select" ELSE "finish"
  /\ UNCHANGED << libraryVars, tx, sharedVars, cfg, error, analyzerVars, history, probe, response, metrics,
                  llr, outVars, log, traceVars >>

\* run, lines 248-251
SelectProbe ==
  /\ pc = "select"
  /\ probe' = PolicySelect(probes, history)
  /\ pc' = StepAfter("select")
  /\ events' = Append(events, "select")
  /\ UNCHANGED << libraryVars, tx, sharedVars, cfg, error, analyzerVars, sprtVars, history, probe_history,
                  iteration, response, metrics, llr, outVars, log, hw_status,
                  runs >>

\* run, lines 253-256: the probe rendered to an IQ file
Render ==
  /\ pc = "render"
  /\ duration' = 1000 * cfg.probe_duration
  /\ IF GenerateError(probe, duration') = "none"
     THEN /\ probe_iq' = GenerateIQ(probe, duration')
          /\ pc' = StepAfter("render") /\ error' = error
     ELSE /\ probe_iq' = probe_iq
          /\ pc' = "aborted" /\ error' = GenerateError(probe, duration')
  /\ events' = Append(events, "render")
  /\ UNCHANGED << probes, tx, sharedVars, cfg, analyzerVars, sprtVars,
                  loopVars, outVars, log, hw_status, runs >>

\* run, lines 258-259: rf_channel.transmit starts the transmit process, or
\* returns no process
Transmit ==
  /\ pc = "transmit"
  /\ tx' \in {NoProcess, "running"}
  /\ pc' = "transmitting"
  /\ events' = Append(events, "transmit")
  /\ UNCHANGED << libraryVars, sharedVars, cfg, error, analyzerVars, sprtVars,
                  loopVars, outVars, log, hw_status, runs >>

\* a wrong stop: the process is terminated and not waited for
StopOutcomeNoWait(exits_in_time) ==
  [tx |-> IF exits_in_time THEN "exited" ELSE "running", error |-> "none"]

\* run, lines 265-267: terminate() and wait(timeout=5) on a process that is
\* still running; wait raises TimeoutExpired when the process does not exit
StopOutcome(exits_in_time) ==
  IF exits_in_time
  THEN [tx |-> "exited", error |-> "none"]
  ELSE [tx |-> "running", error |-> "TimeoutExpired"]

\* run, lines 261-272: wait out the probe, stop the process if it has not
\* exited by itself, wait out the inter-probe delay
TransmitStop ==
  /\ pc = "transmitting"
  /\ \/ /\ tx = NoProcess
        /\ UNCHANGED << tx, error >>
        /\ pc' = StepAfter("transmit")
     \/ /\ tx = "running"
        /\ tx' = "exited"
        /\ error' = error
        /\ pc' = StepAfter("transmit")
     \/ /\ tx = "running"
        /\ \E exits_in_time \in BOOLEAN :
             /\ tx' = StopOutcome(exits_in_time).tx
             /\ IF StopOutcome(exits_in_time).error = "none"
                THEN error' = error /\ pc' = StepAfter("transmit")
                ELSE error' = StopOutcome(exits_in_time).error /\ pc' = "aborted"
  /\ UNCHANGED << libraryVars, sharedVars, cfg, analyzerVars, sprtVars,
                  loopVars, outVars, log, traceVars >>

\* a wrong substitute: a failed capture leaves no observation at all
ResponseOfNone(capture_success, power) ==
  [ok |-> capture_success, power |-> IF capture_success THEN power ELSE None]

\* run, lines 285-290: the buffer the iteration goes on with
ResponseOf(capture_success, power) ==
  [ok |-> capture_success,
   power |-> IF capture_success THEN power ELSE ZeroObservation]

\* run, lines 274-290; tx_process is not looked at again
Listen ==
  /\ pc = "listen"
  /\ \/ \E power \in ResponsePowers :
          /\ response' = ResponseOf(TRUE, power)
          /\ log' = log
     \/ \E power \in ResponsePowers :
          /\ response' = ResponseOf(FALSE, power)
          /\ log' = Append(log, LogRecord("ERROR", "Response capture failed. Using zero observation."))
  /\ tx' = NoProcess
  /\ pc' = StepAfter("listen")
  /\ events' = Append(events, "listen")
  /\ UNCHANGED << libraryVars, sharedVars, cfg, error, analyzerVars, sprtVars, history, probe_history,
                  iteration, probe, metrics, llr, outVars, hw_status, runs >>

\* a wrong analysis step: the baseline follows the responses
AnalyzeResponseAdapting ==
  /\ pc = "analyze"
  /\ metrics' = Analyze(baseline_mean, baseline_std, cfg.anomaly_threshold_sigma,
                        iteration, response.power)
  /\ log' = log \o NoBaselineLog(baseline_mean, baseline_std,
                                 "No baseline set. Anomaly detection disabled.")
  /\ baseline_mean' = BaselineMeanOf(<<baseline_mean, response.power>>)
  /\ pc' = "update"
  /\ events' = Append(events, "analyze")
  /\ UNCHANGED << libraryVars, tx, sharedVars, cfg, error, baseline_std, baseline_samples, i, sprtVars,
                  history, probe_history, iteration, probe, response, llr,
                  outVars, hw_status, runs >>

\* run, lines 292-304
AnalyzeResponse ==
  /\ pc = "analyze"
  /\ metrics' = Analyze(baseline_mean, baseline_std, cfg.anomaly_threshold_sigma,
                        iteration, response.power)
  /\ log' = log \o NoBaselineLog(baseline_mean, baseline_std,
                                 "No baseline set. Anomaly detection disabled.")
  /\ pc' = StepAfter("analyze")
  /\ events' = Append(events, "analyze")
  /\ UNCHANGED << libraryVars, tx, sharedVars, cfg, error, analyzerVars, sprtVars, history, probe_history,
                  iteration, probe, response, llr, outVars, hw_status, runs >>

\* a wrong loop test: the decision is not looked at
LoopContinuesBlind(st, k, max_iterations) == k + 1 < max_iterations

\* run, lines 243 and 323-329: does the loop go on after iteration k
LoopContinues(st, k, max_iterations) ==
  ~IsDecided(st) /\ k + 1 < max_iterations

\* run, lines 306-329
UpdateSPRT ==
  /\ pc = "update"
  /\ llr' = ComputeLLR(baseline_mean, baseline_std, cfg.anomaly_threshold_sigma,
                       metrics)
  /\ log' = log \o NoBaselineLog(baseline_mean, baseline_std, "No baseline. LLR set to 0.")
  /\ events' = Append(events, "update")
  /\ IF UpdateRaises(state)
     THEN /\ error' = "LogicError"
          /\ pc' = "aborted"
          /\ UNCHANGED << state, history, probe_history, iteration >>
     ELSE /\ state' = Update(sprt, state, llr')
          /\ history' = Append(history, [probe |-> probe, metrics |-> metrics])
          /\ probe_history' = Append(probe_history, probe)
          /\ error' = error
          /\ IF LoopContinues(state', iteration, cfg.max_iterations)
             THEN pc' = "select" /\ iteration' = iteration + 1
             ELSE pc' = "finish" /\ iteration' = iteration
  /\ UNCHANGED << libraryVars, tx, sharedVars, cfg, analyzerVars, sprt, probe, response, metrics, outVars,
                  hw_status, runs >>

\* run, lines 331-342, with _save_session_summary, lines 370-391
Finish ==
  /\ pc = "finish"
  /\ result' = [decision |-> state.decision, steps |-> state.steps,
                log_odds_history |-> state.history, probes_used |-> probe_history]
  /\ summary' = [decision |-> result'.decision,
                 decision_name |-> DecisionName(result'.decision),
                 steps |-> result'.steps,
                 log_odds_history |-> result'.log_odds_history,
                 probes_used |-> [k \in 1..Len(result'.probes_used) |->
                                    result'.probes_used[k].type]]
  /\ \E hackrf_ok \in BOOLEAN, rtlsdr_ok \in BOOLEAN :
       log' = log \o HardwareLog(hackrf_ok, rtlsdr_ok)
  /\ events' = Append(events, "check_hardware")
  /\ pc' = "done"
  /\ UNCHANGED << libraryVars, tx, sharedVars, cfg, error, analyzerVars, sprtVars, loopVars, report,
                  hw_status, runs >>

\* main, lines 447-455
PrintResult ==
  /\ pc = "done"
  /\ report' = MainReport(result.decision)
  /\ pc' = "reported"
  /\ UNCHANGED << libraryVars, tx, sharedVars, cfg, error, analyzerVars, sprtVars, loopVars, result, summary,
                  log, traceVars >>

Next ==
  \/ Construct
  \/ CheckHardware
  \/ BaselineStart
  \/ CaptureBaselineSample
  \/ FinishBaseline
  \/ InitSPRT
  \/ SelectProbe
  \/ Render
  \/ Transmit
  \/ TransmitStop
  \/ Listen
  \/ AnalyzeResponse
  \/ UpdateSPRT
  \/ Finish
  \/ PrintResult

Spec == Init /\ [][Next]_vars

(* ------------- a second run() on the same ActiveBeacon ----------------- *)

\* the configurations of the sessions that are run again
RerunConfigs == { Config(5, 5, m, 3, 2) : m \in {1, 2} }

InitRerun ==
  /\ cfg \in RerunConfigs
  /\ pc = "new"
  /\ Fresh

\* run() has returned or raised and the caller calls it again: its locals are
\* gone, the fields of the object (self.sprt, self.history, the analyzer's
\* baseline) and the logger's records stay as they are
RunAgain ==
  /\ pc \in {"done", "aborted"}
  /\ runs < MaxRuns
  /\ pc' = "idle"
  /\ error' = "none"
  /\ baseline_samples' = <<>> /\ i' = 0
  /\ state' = NoState
  /\ probe_history' = <<>> /\ iteration' = 0
  /\ probe' = NoProbe /\ response' = NoResponse /\ metrics' = NoMetrics
  /\ llr' = 0
  /\ result' = NoResult /\ summary' = NoResult
  /\ hw_status' = NoStatus /\ events' = <<>>
  /\ probe_iq' = NoBuffer /\ duration' = 0
  /\ tx' = NoProcess
  /\ UNCHANGED << probes, sharedVars, cfg, baseline_mean, baseline_std, sprt,
                  history, report, log, runs >>

NextRerun == Next \/ RunAgain

SpecRerun == InitRerun /\ [][NextRerun]_vars

(* ----------------------- a session that is stopped --------------------- *)

\* the positions of run() after its hardware check
RunPositions ==
  { "baseline_start", "baseline", "sprt_init", "select", "render", "transmit",
    "transmitting", "listen", "analyze", "update", "finish" }

\* the operator stops the session (SIGINT): run() has no stop flag and no
\* try/except/finally, so Python raises KeyboardInterrupt at the statement
\* being executed and run() is left there; a transmit process in flight is
\* neither terminated nor waited for
Interrupt ==
  /\ pc \in RunPositions
  /\ pc' = "aborted"
  /\ error' = "KeyboardInterrupt"
  /\ UNCHANGED << cfg, analyzerVars, sprtVars, loopVars, outVars, log,
                  traceVars, libraryVars, tx, sharedVars >>

NextInterrupt == Next \/ Interrupt

SpecInterrupt == InitRerun /\ [][NextInterrupt]_vars

(* ------------------- driver of a WaldSPRT on its own ------------------- *)

\* any rates, validated and handed to WaldSPRT as ActiveBeacon does
InitSPRTDriver ==
  /\ cfg \in { Config(a, b, 1, 3, 2) : a \in Rates, b \in Rates }
  /\ pc = "sprt_new"
  /\ Fresh

\* APDConfig.validate, then WaldSPRT(alpha, beta) and new_state()
SPRTNew ==
  /\ pc = "sprt_new"
  /\ IF Validate(cfg) # "none"
     THEN /\ error' = Validate(cfg)
          /\ pc' = "failed"
          /\ UNCHANGED sprtVars
     ELSE /\ sprt' = WaldSPRT(cfg.sprt_alpha, cfg.sprt_beta)
          /\ state' = NewState
          /\ pc' = "sprt_ready"
          /\ error' = error
  /\ UNCHANGED << libraryVars, tx, sharedVars, cfg, analyzerVars, loopVars, outVars, log, traceVars >>

\* one call sprt.update(state, l), on whatever state the test is in; error is
\* the outcome of the last call
SPRTUpdate ==
  /\ pc = "sprt_ready"
  /\ iteration < MaxCalls
  /\ \E l \in LLRInputs :
       /\ llr' = l
       /\ IF UpdateRaises(state)
          THEN error' = "LogicError" /\ state' = state
          ELSE error' = "none" /\ state' = Update(sprt, state, l)
  /\ iteration' = iteration + 1
  /\ UNCHANGED << libraryVars, tx, sharedVars, cfg, pc, analyzerVars, sprt, history, probe_history, probe,
                  response, metrics, outVars, log, traceVars >>

NextSPRTDriver == SPRTNew \/ SPRTUpdate

SpecSPRT == InitSPRTDriver /\ [][NextSPRTDriver]_vars

(* ------------------ two sessions running side by side ------------------ *)

\* config.temp_dir of a session: the default and another directory
TempDirs == {"/tmp/apd_active", "/tmp/apd_other"}

\* the two ActiveBeacon objects
Sessions == {1, 2}

\* a session at the start of capture_baseline: index is the loop index i of
\* capture_baseline and then the loop index iteration of run(); buffer is the
\* session whose capture or rendering produced the buffer last read from a
\* file
Session(temp_dir) ==
  [temp_dir |-> temp_dir, pc |-> "baseline_capture", index |-> 0,
   buffer |-> None]

\* f"{self.config.temp_dir}/{kind}_{index}.iq" of session s
TempFile(s, kind) == << sessions[s].temp_dir, kind, sessions[s].index >>

\* the files after a write of session s to one of its temp files
Written(s, kind) ==
  [path \in DOMAIN files \cup {TempFile(s, kind)} |->
     IF path = TempFile(s, kind) THEN s ELSE files[path]]

\* both sessions have the configuration Config(5, 5, 1, 3, 2), each its own
\* temp_dir, which may be the same directory
InitConcurrent ==
  /\ cfg = Config(5, 5, 1, 3, 2)
  /\ pc = "concurrent"
  /\ FreshSession
  /\ sessions \in [Sessions -> { Session(d) : d \in TempDirs }]
  /\ files = <<>>

\* capture_baseline, lines 177-184: capture_iq writes baseline_{i}.iq; when
\* it fails the file is not written and the pass ends without a sample
ConcurrentBaselineCapture ==
  \E s \in Sessions :
    /\ sessions[s].pc = "baseline_capture"
    /\ \/ /\ files' = Written(s, "baseline")
          /\ sessions' = [sessions EXCEPT ![s].pc = "baseline_load"]
       \/ /\ files' = files
          /\ sessions' = [sessions EXCEPT
               ![s].pc = IF sessions[s].index + 1 < cfg.baseline_samples
                         THEN "baseline_capture" ELSE "render",
               ![s].index = IF sessions[s].index + 1 < cfg.baseline_samples
                            THEN sessions[s].index + 1 ELSE 0]
    /\ UNCHANGED << cfg, pc, error, analyzerVars, sprtVars, loopVars, outVars,
                    log, traceVars, libraryVars, tx >>

\* capture_baseline, lines 186-188: np.fromfile reads baseline_{i}.iq
ConcurrentBaselineLoad ==
  \E s \in Sessions :
    /\ sessions[s].pc = "baseline_load"
    /\ sessions' = [sessions EXCEPT
         ![s].buffer = files[TempFile(s, "baseline")],
         ![s].pc = IF sessions[s].index + 1 < cfg.baseline_samples
                   THEN "baseline_capture" ELSE "render",
         ![s].index = IF sessions[s].index + 1 < cfg.baseline_samples
                      THEN sessions[s].index + 1 ELSE 0]
    /\ UNCHANGED << cfg, pc, error, analyzerVars, sprtVars, loopVars, outVars,
                    log, traceVars, libraryVars, tx, files >>

\* run, lines 254-256: probe_iq.tofile writes probe_{iteration}.iq
ConcurrentRender ==
  \E s \in Sessions :
    /\ sessions[s].pc = "render"
    /\ files' = Written(s, "probe")
    /\ sessions' = [sessions EXCEPT ![s].pc = "transmit"]
    /\ UNCHANGED << cfg, pc, error, analyzerVars, sprtVars, loopVars, outVars,
                    log, traceVars, libraryVars, tx >>

\* run, lines 259-267: the transmit process reads probe_{iteration}.iq
ConcurrentTransmit ==
  \E s \in Sessions :
    /\ sessions[s].pc = "transmit"
    /\ sessions' = [sessions EXCEPT
         ![s].buffer = files[TempFile(s, "probe")],
         ![s].pc = "capture"]
    /\ UNCHANGED << cfg, pc, error, analyzerVars, sprtVars, loopVars, outVars,
                    log, traceVars, libraryVars, tx, files >>

\* run, lines 278-288: capture_iq writes response_{iteration}.iq; when it
\* fails, or the file does not exist, the zero buffer is used and no file read
ConcurrentCapture ==
  \E s \in Sessions :
    /\ sessions[s].pc = "capture"
    /\ \/ /\ files' = Written(s, "response")
          /\ sessions' = [sessions EXCEPT ![s].pc = "load"]
       \/ /\ files' = files
          /\ sessions' = [sessions EXCEPT
               ![s].buffer = s,
               ![s].pc = IF sessions[s].index + 1 < cfg.max_iterations
                         THEN "render" ELSE "done",
               ![s].index = IF sessions[s].index + 1 < cfg.max_iterations
                            THEN sessions[s].index + 1 ELSE sessions[s].index]
    /\ UNCHANGED << cfg, pc, error, analyzerVars, sprtVars, loopVars, outVars,
                    log, traceVars, libraryVars, tx >>

\* run, lines 289-297: np.fromfile reads response_{iteration}.iq and the
\* buffer is analysed
ConcurrentLoad ==
  \E s \in Sessions :
    /\ sessions[s].pc = "load"
    /\ sessions' = [sessions EXCEPT
         ![s].buffer = files[TempFile(s, "response")],
         ![s].pc = IF sessions[s].index + 1 < cfg.max_iterations
                   THEN "render" ELSE "done",
         ![s].index = IF sessions[s].index + 1 < cfg.max_iterations
                      THEN sessions[s].index + 1 ELSE sessions[s].index]
    /\ UNCHANGED << cfg, pc, error, analyzerVars, sprtVars, loopVars, outVars,
                    log, traceVars, libraryVars, tx, files >>

NextConcurrent ==
  \/ ConcurrentBaselineCapture
  \/ ConcurrentBaselineLoad
  \/ ConcurrentRender
  \/ ConcurrentTransmit
  \/ ConcurrentCapture
  \/ ConcurrentLoad

SpecConcurrent == InitConcurrent /\ [][NextConcurrent]_vars

(* ----------------- driver of a ProbeLibrary on its own ----------------- *)

\* the "primes" parameters the driver's prime-sequence probes carry
PrimeLists == { Prefix(Primes, n) : n \in 0..MaxPrimes }

\* the probes handed to generate_iq: those of the standard library, custom
\* probes, and prime-sequence probes with and without a "primes" parameter
LibraryProbes ==
  { StandardLibrary[k] : k \in 1..Len(StandardLibrary) }
    \cup { CustomProbe(kl) : kl \in {10, 30} }
    \cup { PrimeProbe(primes) : primes \in PrimeLists }
    \cup { [type |-> "prime_sequence", kl_score |-> 28] }

\* the durations handed to generate_iq, in ms
LibraryDurations == {0, 1000, 2050, 5000, 12000}

\* ProbeLibrary(sample_rate)
InitLibraryDriver ==
  /\ cfg = Config(1, 1, 1, 3, 2)
  /\ pc = "library_ready"
  /\ Fresh

\* one call get_standard_library()
LibraryStandard ==
  /\ pc = "library_ready"
  /\ iteration < MaxCalls
  /\ probes' = StandardLibrary
  /\ iteration' = iteration + 1
  /\ events' = Append(events, "get_standard_library")
  /\ UNCHANGED << cfg, pc, error, analyzerVars, sprtVars, history,
                  probe_history, probe, response, metrics, llr, outVars, log,
                  hw_status, runs, probe_iq, duration, tx, sharedVars >>

\* one call generate_iq(probe, duration); error is the outcome of the call
LibraryGenerate ==
  /\ pc = "library_ready"
  /\ iteration < MaxCalls
  /\ \E p \in LibraryProbes, d \in LibraryDurations :
       /\ probe' = p
       /\ duration' = d
       /\ error' = GenerateError(p, d)
       /\ probe_iq' = IF error' = "none" THEN GenerateIQ(p, d) ELSE NoBuffer
  /\ iteration' = iteration + 1
  /\ events' = Append(events, "generate_iq")
  /\ UNCHANGED << cfg, pc, analyzerVars, sprtVars, history, probe_history,
                  response, metrics, llr, outVars, log, hw_status, runs,
                  probes, tx, sharedVars >>

NextLibraryDriver == LibraryStandard \/ LibraryGenerate

SpecLibrary == InitLibraryDriver /\ [][NextLibraryDriver]_vars

(* --------------- driver of a ResponseAnalyzer on its own --------------- *)

\* ResponseAnalyzer(sample_rate, anomaly_threshold, baseline_mean, baseline_std)
InitAnalyzerDriver ==
  /\ cfg \in { Config(1, 1, 1, t, 2) : t \in Thresholds }
  /\ pc = "analyzer_ready"
  /\ error = "none"
  /\ baseline_mean \in AnalyzerMeans /\ baseline_std \in AnalyzerStds
  /\ baseline_samples = <<>> /\ i = 0
  /\ sprt = NoSPRT /\ state = NoState
  /\ history = <<>> /\ probe_history = <<>> /\ iteration = 0
  /\ probe = NoProbe /\ response = NoResponse /\ metrics = NoMetrics
  /\ llr = 0
  /\ result = NoResult /\ summary = NoResult /\ report = "none"
  /\ log = <<>>
  /\ hw_status = NoStatus /\ events = <<>> /\ runs = 0
  /\ probes = <<>> /\ probe_iq = NoBuffer /\ duration = 0
  /\ tx = NoProcess
  /\ files = <<>> /\ sessions = <<>>

\* one call analyze(probe_id, response_iq)
AnalyzerAnalyze ==
  /\ pc = "analyzer_ready"
  /\ iteration < MaxCalls
  /\ \E power \in AnalyzerPowers :
       /\ response' = [ok |-> TRUE, power |-> power]
       /\ metrics' = Analyze(baseline_mean, baseline_std,
                             cfg.anomaly_threshold_sigma, iteration, power)
  /\ log' = log \o NoBaselineLog(baseline_mean, baseline_std,
                                 "No baseline set. Anomaly detection disabled.")
  /\ pc' = "analyzer_analyzed"
  /\ UNCHANGED << libraryVars, tx, sharedVars, cfg, error, analyzerVars, sprtVars, history, probe_history,
                  iteration, probe, llr, outVars, traceVars >>

\* one call compute_llr_from_metrics(metrics) on the metrics just computed
AnalyzerLLR ==
  /\ pc = "analyzer_analyzed"
  /\ llr' = ComputeLLR(baseline_mean, baseline_std, cfg.anomaly_threshold_sigma,
                       metrics)
  /\ log' = log \o NoBaselineLog(baseline_mean, baseline_std, "No baseline. LLR set to 0.")
  /\ iteration' = iteration + 1
  /\ pc' = "analyzer_llr"
  /\ UNCHANGED << libraryVars, tx, sharedVars, cfg, error, analyzerVars, sprtVars, history, probe_history,
                  probe, response, metrics, outVars, traceVars >>

\* the driver goes on to its next call
AnalyzerAgain ==
  /\ pc = "analyzer_llr"
  /\ iteration < MaxCalls
  /\ pc' = "analyzer_ready"
  /\ UNCHANGED << libraryVars, tx, sharedVars, cfg, error, analyzerVars, sprtVars, loopVars, outVars, log,
                  traceVars >>

\* the capture lists handed to set_baseline: one capture or more
BaselineLists ==
  UNION { [1..n -> BaselinePowers] : n \in 1..MaxBaselineSamples }

\* one call set_baseline(baseline_iq_samples), lines 96-115, between two
\* analyses; baseline_samples keeps the list it was given
AnalyzerSetBaseline ==
  /\ pc = "analyzer_ready"
  /\ baseline_samples = <<>>
  /\ \E samples \in BaselineLists :
       /\ baseline_samples' = samples
       /\ baseline_mean' = BaselineMeanOf(samples)
       /\ baseline_std' = BaselineStdOf(samples)
  /\ events' = Append(events, "set_baseline")
  /\ UNCHANGED << libraryVars, tx, sharedVars, cfg, pc, error, i, sprtVars, loopVars, outVars, log,
                  hw_status, runs >>

NextAnalyzerDriver ==
  AnalyzerAnalyze \/ AnalyzerLLR \/ AnalyzerAgain \/ AnalyzerSetBaseline

SpecAnalyzer == InitAnalyzerDriver /\ [][NextAnalyzerDriver]_vars

(* ============================== claims ================================ *)

\* the sum of the first k increments of an LLR history
RECURSIVE RunningSum(_, _)
RunningSum(h, k) == IF k = 0 THEN 0 ELSE h[k] + RunningSum(h, k - 1)

\* a step of the SPRT driver that makes one update call
UpdateCall == pc = "sprt_ready" /\ iteration' = iteration + 1

\* C1: an update on a pending state adds llr to cumulativeLogOdds, appends
\* llr to the history and increments stepCount by exactly one; the decision
\* afterwards is H1 if cumulativeLogOdds >= A, else H0 if cumulativeLogOdds <= B,
\* else pending (both tests inclusive, the H1 test first).
C1_UpdateOnPending ==
  [][ (UpdateCall /\ state.decision = "pending") =>
        /\ state'.log_likelihood_ratio = state.log_likelihood_ratio + llr'
        /\ state'.history = state.history \o << llr' >>
        /\ state'.steps = state.steps + 1
        /\ state'.decision =
             IF state'.log_likelihood_ratio >= sprt.A THEN "H1"
             ELSE IF state'.log_likelihood_ratio <= sprt.B THEN "H0"
             ELSE "pending" ]_vars

\* C1 witness: one update has left cumulativeLogOdds exactly on both thresholds
\* (A = B), and the decision is H1
C1_Witness ==
  /\ pc = "sprt_ready" /\ state.decision = "H1" /\ state.steps = 1
  /\ state.log_likelihood_ratio = sprt.A /\ sprt.A = sprt.B

\* C2: H0 and H1 are absorbing: an update called on a state whose decision is
\* H0 or H1 fails with an error and leaves cumulativeLogOdds, stepCount,
\* history and decision unchanged.
C2_TerminalAbsorbing ==
  [][ (UpdateCall /\ state.decision \in {"H0", "H1"}) =>
        (error' # "none" /\ state' = state) ]_vars

\* C2 witness: an update was refused on a state decided H0 after two steps
C2_Witness ==
  /\ pc = "sprt_ready" /\ error = "LogicError"
  /\ state.decision = "H0" /\ state.steps = 2 /\ iteration = 3

\* the outcome a finished session reports must be the decision of its state
ReportsOf(decision, name, line) ==
  /\ result.decision = decision
  /\ summary.decision = decision
  /\ summary.decision_name = name
  /\ pc = "reported" => report = line

\* C3: when run() ends with the SPRT state still pending (max_iterations
\* exhausted) the result, the summary and the printed report say undecided,
\* never H0 or H1; they say H0 (resp. H1) only if the state's decision is H0
\* (resp. H1).
C3_UndecidedReported ==
  pc \in {"done", "reported"} =>
    /\ state.decision = "pending" =>
         ReportsOf("pending", "Undecided", "RESULT: Undecided (max iterations reached)")
    /\ (result.decision = "H0" \/ summary.decision_name = "H0 (Null)"
          \/ report = "RESULT: Null hypothesis (H0)") => state.decision = "H0"
    /\ (result.decision = "H1" \/ summary.decision_name = "H1 (Adaptive)"
          \/ report = "RESULT: Adaptive response detected (H1)") => state.decision = "H1"

\* C3 witness: a session that used up max_iterations > 1 iterations while
\* pending has printed its report
C3_Witness ==
  /\ pc = "reported" /\ state.decision = "pending"
  /\ state.steps = cfg.max_iterations /\ cfg.max_iterations > 1
  /\ summary.decision_name = "Undecided"

\* every response of the session so far was captured and had the baseline's
\* mean power
NeverAnomalousCollaborator ==
  /\ Len(history) >= 1
  /\ \A k \in 1..Len(history) : history[k].metrics.power_mean = baseline_mean

\* C4: with a capture collaborator whose every response has the power of the
\* current baseline mean, and alpha, beta <= 0.05, the loop ends decided H0
\* (or the iteration budget ran out first); it never ends decided H1.
C4_BaselinePowerReachesH0 ==
  ( /\ pc \in {"finish", "done", "reported"}
    /\ cfg.sprt_alpha <= 5 /\ cfg.sprt_beta <= 5
    /\ NeverAnomalousCollaborator ) =>
      \/ state.decision = "H0"
      \/ state.decision = "pending" /\ state.steps = cfg.max_iterations

\* the analyzer driver has analysed a response and computed its LLR
AnalyzerDone == pc = "analyzer_llr"

\* C5: with an established baseline (stdDev > 0, threshold > 0) a response
\* whose powerMean equals the baseline mean yields anomalyScore = 0,
\* isAnomaly = false and a strictly negative llr.
C5_BaselineMeanResponse ==
  ( /\ AnalyzerDone
    /\ HasBaseline(baseline_mean, baseline_std)
    /\ baseline_std > 0 /\ cfg.anomaly_threshold_sigma > 0
    /\ metrics.power_mean = baseline_mean ) =>
      /\ metrics.anomaly_score = 0
      /\ metrics.is_anomaly = FALSE
      /\ llr < 0

\* the scenario of the spec: baseline mean 1.0, stdDev 0.1, threshold 3.0 and
\* a response of powerMean 1.3
ThresholdResponse ==
  /\ AnalyzerDone
  /\ baseline_mean = 10 /\ baseline_std = 1 /\ cfg.anomaly_threshold_sigma = 3
  /\ metrics.power_mean = 13

\* C6 as stated: that response yields anomalyScore = 3.0, isAnomaly = true
\* and a strictly positive llr.
C6_ThresholdResponseAnomalous ==
  ThresholdResponse =>
    /\ metrics.anomaly_score = Milli(3)
    /\ metrics.is_anomaly = TRUE
    /\ llr > 0

\* C6 amended: that response yields an anomalyScore that the epsilon of the
\* denominator keeps strictly below 3.0 (within 0.01 of it), hence
\* isAnomaly = false under the strict comparison, and a strictly positive llr.
C6_ThresholdResponseNotAnomalous ==
  ThresholdResponse =>
    /\ metrics.anomaly_score < Milli(3)
    /\ metrics.anomaly_score > Milli(3) - 10
    /\ metrics.is_anomaly = FALSE
    /\ llr > 0

\* C6 witness: the scenario has been analysed
C6_Witness == ThresholdResponse /\ iteration >= 1

\* log p(y | H1) - log p(y | H0) for H0 = Normal(m, s^2) and
\* H1 = Normal(m + thr * s, s^2): ((y - m)^2 - (y - h1)^2) / (2 (s^2 + eps))
GaussianLLR(m, s, thr, y) ==
  LET h1 == m + thr * s
  IN  TruncDiv(Milli(OverEps((y - m) * (y - m) - (y - h1) * (y - h1))),
               2 * PlusEps(s * s))

\* C7: for every observed powerMean y, llrFromMetrics returns the
\* log-likelihood ratio log p(y|H1) - log p(y|H0) of the two stated Gaussian
\* models.
C7_LLRIsGaussian ==
  (AnalyzerDone /\ HasBaseline(baseline_mean, baseline_std)) =>
    llr = GaussianLLR(baseline_mean, baseline_std, cfg.anomaly_threshold_sigma,
                      metrics.power_mean)

\* C8 as stated: for every (alpha, beta) that validation accepts, A > 0 > B.
C8_ThresholdsStraddleZero ==
  pc = "sprt_ready" => (sprt.A > 0 /\ sprt.B < 0)

\* C8 amended: for every accepted (alpha, beta) with alpha + beta < 1,
\* A = ln((1-beta)/alpha) > 0 > B = ln(beta/(1-alpha)).
C8_ThresholdsStraddleZeroBelowOne ==
  (pc = "sprt_ready" /\ cfg.sprt_alpha + cfg.sprt_beta < 100) =>
    (sprt.A > 0 /\ sprt.B < 0)

\* C8 witness: thresholds were computed for alpha = 0.05, beta = 0.6
C8_Witness ==
  /\ pc = "sprt_ready" /\ sprt # NoSPRT
  /\ cfg.sprt_alpha = 5 /\ cfg.sprt_beta = 60

\* C9: after n updates whose running sums all stay strictly between B and A,
\* decision = pending and stepCount = n.
C9_PendingInside ==
  ( /\ pc = "sprt_ready"
    /\ Len(state.history) = iteration
    /\ \A k \in 1..iteration :
         /\ sprt.B < RunningSum(state.history, k)
         /\ RunningSum(state.history, k) < sprt.A ) =>
      (state.decision = "pending" /\ state.steps = iteration)

\* C9 witness: three updates with a non-zero sum have left the test pending
C9_Witness ==
  /\ pc = "sprt_ready" /\ iteration >= 3 /\ state.steps = iteration
  /\ state.decision = "pending" /\ state.log_likelihood_ratio # 0

\* the WARNING records of the log
Warnings == SelectSeq(log, LAMBDA r : r.level = "WARNING")

\* C10: with no baseline set, analyze returns anomalyScore = 0.0 and
\* isAnomaly = false whatever the input, llrFromMetrics returns 0, and each
\* such call logs a warning.
C10_NoBaselineFallback ==
  ( /\ pc \in {"analyzer_ready", "analyzer_analyzed", "analyzer_llr"}
    /\ ~HasBaseline(baseline_mean, baseline_std) ) =>
      /\ pc # "analyzer_ready" =>
           (metrics.anomaly_score = 0 /\ metrics.is_anomaly = FALSE)
      /\ pc = "analyzer_llr" => llr = 0
      /\ Len(Warnings) = 2 * iteration + (IF pc = "analyzer_analyzed" THEN 1 ELSE 0)

\* C10 witness: without a baseline, a second response of high power has been
\* analysed and its LLR computed
C10_Witness ==
  /\ pc = "analyzer_llr" /\ baseline_mean = None
  /\ iteration = 2 /\ metrics.power_mean = 16

(* ------------------------------- C11 ---------------------------------- *)

\* a configuration the claim says is rejected
InvalidConfig(c) ==
  \/ ~(0 < c.sprt_alpha /\ c.sprt_alpha < 100)
  \/ ~(0 < c.sprt_beta /\ c.sprt_beta < 100)
  \/ c.max_iterations < 1
  \/ c.probe_duration <= 0
  \/ c.listen_duration <= 0

\* C11: a configuration with alpha or beta outside (0,1), max_iterations below
\* 1 or a probe or listen duration that is not positive is rejected with a
\* ValueError by the constructor, no step ever changes a configuration value,
\* and no hardware call is made for such a configuration.
C11_InvalidConfigRejected ==
  [][ /\ cfg' = cfg
      /\ (pc = "new" /\ InvalidConfig(cfg))
           => (pc' = "failed" /\ error' = "ValueError")
      /\ InvalidConfig(cfg) => (events' = <<>> /\ hw_status' = NoStatus) ]_vars

\* a configuration rejected for its listen duration alone
C11_Witness ==
  /\ pc = "failed" /\ error = "ValueError"
  /\ cfg.sprt_alpha = 5 /\ cfg.sprt_beta = 5 /\ cfg.max_iterations >= 1
  /\ cfg.probe_duration = 5 /\ cfg.listen_duration = 0
  /\ ~cfg.licence_gate
  /\ events = <<>>

(* ------------------------------- C12 ---------------------------------- *)

\* C12: a configuration whose baseline sample count is below 2 is rejected by
\* the constructor, so that no hardware availability check, baseline capture
\* or transmission is ever made for it.
C12_SmallBaselineRejected ==
  cfg.baseline_samples < 2 => (pc \in {"new", "failed"} /\ events = <<>>)

(* ------------------------------- C13 ---------------------------------- *)

\* the positions of run() up to the end of capture_baseline
BeforeBaselineEnd == {"new", "failed", "idle", "baseline_start", "baseline"}

\* set membership for a sequence
Occurs(e, seq) == \E k \in 1..Len(seq) : seq[k] = e

\* C13: once capture_baseline has ended with fewer than 2 successful captures,
\* run() has raised RuntimeError: the analyzer has no baseline, there is no
\* SPRT and no SPRT state, and no probe was selected, rendered or transmitted.
C13_ShortBaselineAborts ==
  (pc \notin BeforeBaselineEnd /\ Len(baseline_samples) < 2)
    => /\ pc = "aborted" /\ error = "RuntimeError"
       /\ baseline_mean = None /\ baseline_std = None
       /\ ~Occurs("set_baseline", events)
       /\ sprt = NoSPRT /\ state = NoState
       /\ probe = NoProbe
       /\ ~Occurs("select", events) /\ ~Occurs("render", events)
       /\ ~Occurs("transmit", events)

\* two or more captures were asked for and exactly one succeeded
C13_Witness ==
  /\ pc = "aborted"
  /\ cfg.baseline_samples >= 2 /\ i = cfg.baseline_samples
  /\ Len(baseline_samples) = 1

(* ------------------------------- C14 ---------------------------------- *)

\* C14: set_baseline fails when it is given fewer than 2 captures; given n >= 2
\* captures it sets the baseline mean to the arithmetic mean of the per-capture
\* mean PSD values (here up to the truncation of the grid) and the standard
\* deviation to a value that is not negative.
C14_CalibrateNeedsTwo ==
  Occurs("set_baseline", events)
    => IF Len(baseline_samples) < 2
       THEN error # "none"
       ELSE /\ Len(baseline_samples) * baseline_mean <= SeqSum(baseline_samples)
            /\ SeqSum(baseline_samples)
                 < Len(baseline_samples) * (baseline_mean + 1)
            /\ baseline_std >= 0

(* ------------------------------- C15 ---------------------------------- *)

\* how many times a call occurs in a sequence of calls
Count(e, seq) == Cardinality({ k \in 1..Len(seq) : seq[k] = e })

\* the positions of run() after capture_baseline has returned True
AfterBaseline ==
  {"sprt_init", "select", "render", "transmit", "listen", "analyze", "update",
   "finish", "done", "reported"}

\* C15: in one session set_baseline is called exactly once, before the first
\* probe is selected, and no later step of the session changes the baseline
\* mean or standard deviation.
C15_BaselineFixed ==
  [][ /\ Count("set_baseline", events') <= 1
      /\ \A k \in 1..Len(events) :
           events[k] = "select"
             => \E j \in 1..(k - 1) : events[j] = "set_baseline"
      /\ pc \in AfterBaseline
           => /\ Count("set_baseline", events) = 1
              /\ HasBaseline(baseline_mean, baseline_std)
              /\ baseline_mean' = baseline_mean
              /\ baseline_std' = baseline_std ]_vars

\* a session of two iterations or more whose responses are off the baseline
\* mean
C15_Witness ==
  /\ pc = "reported"
  /\ Len(history) >= 2
  /\ HasBaseline(baseline_mean, baseline_std)
  /\ \A k \in 1..Len(history) : history[k].metrics.power_mean # baseline_mean

(* ------------------------------- C16 ---------------------------------- *)

\* C16: in an iteration whose response capture failed the driver goes on with
\* the zero buffer: the analysis is made on it, the SPRT is updated exactly
\* once, no exception is raised, and the loop goes on with the next iteration
\* unless the update decided the test or the iteration budget is used up.
C16_FailedCaptureGoesOn ==
  [][ /\ (pc = "analyze" /\ ~response.ok)
           => /\ response.power = ZeroObservation
              /\ metrics'.power_mean = ZeroObservation
              /\ pc' = "update" /\ error' = "none"
      /\ (pc = "update" /\ ~response.ok)
           => /\ metrics.power_mean = ZeroObservation
              /\ state'.steps = state.steps + 1
              /\ Len(history') = Len(history) + 1
              /\ Count("update", events') = Count("listen", events')
              /\ error' = "none"
              /\ IF state'.decision = "pending"
                    /\ iteration + 1 < cfg.max_iterations
                 THEN pc' = "select" /\ iteration' = iteration + 1
                 ELSE pc' = "finish" ]_vars

\* the capture of an iteration failed and the next iteration has begun
C16_Witness ==
  /\ pc = "select"
  /\ iteration >= 1
  /\ ~response.ok
  /\ history[iteration].metrics.power_mean = ZeroObservation
  /\ state.steps = iteration
  /\ error = "none"

(* ------------------------------- C17 ---------------------------------- *)

\* C17: when the hardware check at the start of run() finds the transmit path
\* or the capture path missing, run() has raised RuntimeError and has made no
\* other call: no baseline capture, no baseline, no SPRT and no SPRT state, no
\* probe selected, rendered or transmitted.
C17_MissingHardwareAborts ==
  (hw_status # NoStatus /\ (~hw_status.hackrf \/ ~hw_status.rtlsdr))
    => /\ pc = "aborted" /\ error = "RuntimeError"
       /\ events = << "check_hardware" >>
       /\ baseline_samples = <<>> /\ i = 0
       /\ ~HasBaseline(baseline_mean, baseline_std)
       /\ sprt = NoSPRT /\ state = NoState
       /\ probe = NoProbe /\ history = <<>>

\* the transmit path is there and the capture path is missing
C17_Witness ==
  /\ pc = "aborted"
  /\ hw_status # NoStatus
  /\ hw_status.hackrf /\ ~hw_status.rtlsdr

(* ------------------------------- C18 ---------------------------------- *)

\* the order the claim gives to the steps of one iteration
IterationOrder ==
  << "select", "render", "transmit", "listen", "analyze", "update" >>

IsIterationStep(e) == Occurs(e, IterationOrder)

\* the steps of the loop among the calls of this run(), in the order made
IterationSteps == SelectSeq(events, IsIterationStep)

\* C18: the steps of the loop are made in rounds of select, render, transmit,
\* listen, analyse, SPRT update, in this order; a round is begun only when the
\* round before it is complete, and round k is the iteration of index k - 1.
C18_StepsInOrder ==
  LET steps == IterationSteps
  IN  /\ \A k \in 1..Len(steps) :
           steps[k] = IterationOrder[((k - 1) % Len(IterationOrder)) + 1]
      /\ pc = "select" => Len(steps) = Len(IterationOrder) * iteration
      /\ pc \in {"finish", "done", "reported"}
           => Len(steps) = Len(IterationOrder) * Len(history)

\* a session of two complete iterations or more
C18_Witness ==
  /\ pc = "finish"
  /\ Len(history) >= 2
  /\ Count("select", events) >= 2 /\ Count("update", events) >= 2

(* ------------------------------- C19 ---------------------------------- *)

\* C19: the loop of run() makes at most max_iterations updates; every update
\* is made on a pending state and never raises; the loop is left right after
\* the first update that decides, or after update number max_iterations, so
\* the step count of the result is the smaller of max_iterations and the
\* number of the first deciding iteration.
C19_LoopBounded ==
  [][ /\ pc = "update"
           => /\ state.decision = "pending"
              /\ iteration < cfg.max_iterations
              /\ state.steps = iteration
              /\ error' # "LogicError"
              /\ state'.steps = iteration + 1
              /\ state'.decision # "pending" => pc' = "finish"
              /\ pc' = "finish"
                   => state'.steps = IF state'.decision # "pending"
                                     THEN iteration + 1
                                     ELSE cfg.max_iterations
      /\ state' # NoState => state'.steps <= cfg.max_iterations
      /\ pc' = "done"
           => /\ result'.steps = state'.steps
              /\ result'.decision = state'.decision ]_vars

\* a session decided at its second iteration or later, before the budget is
\* used up
C19_Witness ==
  /\ pc = "done"
  /\ result.decision # "pending"
  /\ result.steps >= 2
  /\ result.steps < cfg.max_iterations

(* ------------------------------- C20 ---------------------------------- *)

\* run() stands between two iterations, or after the last one
IterationBoundary == pc \in {"select", "finish", "done", "reported"}

\* C20: at every iteration boundary of a session the step count, the length
\* of the LLR history, the length of self.history, the number of probes used
\* and the number of completed iterations are the same number, the cumulative
\* log-odds is the sum of the LLR history, and entry k of self.history holds
\* the probe and the metrics of iteration k; the result returned has the same
\* step count, LLR history and probes.
C20_HistoriesAgree ==
  IterationBoundary
    => /\ state.steps = Len(state.history)
       /\ state.steps = Len(history)
       /\ state.steps = Len(probe_history)
       /\ state.steps = Count("update", events)
       /\ state.log_likelihood_ratio = SeqSum(state.history)
       /\ \A k \in 1..Len(history) :
            /\ k <= Len(probe_history) => history[k].probe = probe_history[k]
            /\ history[k].metrics.probe_id = k - 1
       /\ pc \in {"done", "reported"}
            => /\ result.steps = state.steps
               /\ result.log_odds_history = state.history
               /\ result.probes_used = probe_history

(* ------------------------------- C21 ---------------------------------- *)

\* the last call of the library driver was generate_iq
Generated == events # <<>> /\ events[Len(events)] = "generate_iq"

\* C21: generate_iq raises ValueError and returns no buffer for a probe whose
\* type has no generator, the CUSTOM type of custom_probe among them; every
\* probe of the standard library has a type with a generator, and generate_iq
\* returns a buffer for it without raising.
C21_UnknownKindFails ==
  /\ \A k \in 1..Len(StandardLibrary) :
       StandardLibrary[k].type \in GeneratorTypes
  /\ CustomProbe(10).type \notin GeneratorTypes
  /\ Generated
       => /\ probe.type \notin GeneratorTypes
               => (error = "ValueError" /\ probe_iq = NoBuffer)
          /\ (\E k \in 1..Len(StandardLibrary) : StandardLibrary[k] = probe)
               => (error = "none" /\ probe_iq # NoBuffer
                   /\ probe_iq.n_samples = NSamples(duration))

\* generate_iq was called with a custom probe
C21_Witness ==
  /\ Generated
  /\ probe = CustomProbe(30)
  /\ duration = 5000
  /\ error = "ValueError"

(* ------------------------------- C22 ---------------------------------- *)

\* C22: of two sessions that run side by side, each one reads from its temp
\* files only what it wrote itself: the baseline buffer it calibrates from,
\* the probe file it transmits and the response buffer it analyses are those
\* its own capture or rendering produced.
C22_SessionsIsolated ==
  \A s \in DOMAIN sessions : sessions[s].buffer \in {None, s}

(* ------------------------------- C23 ---------------------------------- *)

\* C23: a session stopped from outside stops between two iterations, never
\* inside one, and a transmission in flight has been stopped by then: when
\* run() has ended on the stop signal, the statements of the loop body that
\* ran are whole iterations and no transmit process is still running.
C23_StopBetweenIterations ==
  error = "KeyboardInterrupt"
    => /\ Len(IterationSteps) % Len(LoopSteps) = 0
       /\ tx # "running"

(* ------------------------------- C24 ---------------------------------- *)

\* the list a call of get_standard_library has returned
LibraryReturned == probes # <<>>

\* C24: in the list get_standard_library returns there is a silence probe, its
\* kl_score is the smallest of the list and no kl_score is negative; a further
\* call returns the same probes in the same order.
C24_SilenceLeastAndStable ==
  /\ [](LibraryReturned =>
          /\ \E s \in 1..Len(probes) :
               /\ probes[s].type = "silence"
               /\ \A k \in 1..Len(probes) : probes[s].kl_score <= probes[k].kl_score
          /\ \A k \in 1..Len(probes) : probes[k].kl_score >= 0)
  /\ [][LibraryReturned => probes' = probes]_vars

\* C24 witness: get_standard_library has been called twice
C24_Witness ==
  /\ pc = "library_ready"
  /\ Count("get_standard_library", events) >= 2
  /\ Len(probes) = 9
  /\ probes[9].type = "silence"

(* ------------------------------- C25 ---------------------------------- *)

\* the offset of pulse k of a prime list, in seconds: 0, p1, p1 + p2, ...
RECURSIVE PrimeOffset(_, _)
PrimeOffset(primes, k) ==
  IF k <= 1 THEN 0 ELSE PrimeOffset(primes, k - 1) + primes[k - 1]

\* sample j (counted from 0, taken at j / SampleRate seconds) lies in pulse k:
\* not before the offset of the pulse and less than min(0.1 s, p / 10 s) after
InPulse(j, primes, k) ==
  /\ SampleRate * 1000 * PrimeOffset(primes, k) <= 1000 * j
  /\ 1000 * j < SampleRate * (1000 * PrimeOffset(primes, k) + PulseDuration(primes[k]))

\* generate_iq has just rendered a prime-sequence probe
PrimesRendered == Generated /\ probe.type = "prime_sequence"

\* C25: the buffer rendered for a prime-sequence probe has int(sr * duration)
\* samples; a sample is 1 exactly when it lies in the pulse of a prime whose
\* cumulative offset is below the duration, and 0 otherwise, also after the
\* last prime of the list; no exception is raised and every index assigned is
\* inside [0, n_samples).
C25_PrimePulsesInBuffer ==
  PrimesRendered
    => LET primes == ParamPrimes(probe)
           n      == NSamples(duration)
           pulses == { k \in 1..Len(primes) : 1000 * PrimeOffset(primes, k) < duration }
       IN  /\ error = "none"
           /\ probe_iq.n_samples = n
           /\ DOMAIN probe_iq.signal = 1..n
           /\ \A j \in 0..(n - 1) :
                probe_iq.signal[j + 1] =
                  IF \E k \in pulses : InPulse(j, primes, k) THEN 1 ELSE 0
           /\ probe_iq.written \subseteq 0..(n - 1)

\* C25 witness: 2.05 s of the primes 2, 3: the second pulse begins at 2 s, at
\* sample 40, and is cut at the end of the buffer of 41 samples
C25_Witness ==
  /\ PrimesRendered
  /\ duration = 2050
  /\ ParamPrimes(probe) = << 2, 3 >>
  /\ probe_iq.n_samples = 41
  /\ probe_iq.signal[41] = 1
  /\ probe_iq.signal[40] = 0
  /\ probe_iq.written = {0, 1, 40}

(* ------------------------------- C26 ---------------------------------- *)

\* the records of failed response captures in the log (run, line 287)
CaptureFailures ==
  { k \in 1..Len(log) :
      log[k] = LogRecord("ERROR", "Response capture failed. Using zero observation.") }

\* the session has listened at least once and every response capture failed,
\* with a baseline of non-negative mean and a positive anomaly threshold
AllCapturesFailed ==
  /\ HasBaseline(baseline_mean, baseline_std)
  /\ baseline_mean >= 0
  /\ cfg.anomaly_threshold_sigma > 0
  /\ Occurs("listen", events)
  /\ Cardinality(CaptureFailures) = Count("listen", events)

\* no iteration flagged, no positive LLR increment, and so a cumulative
\* log-odds that never goes up
NoEvidence ==
  /\ \A k \in 1..Len(history) :
       /\ history[k].metrics.power_mean = ZeroObservation
       /\ ~history[k].metrics.is_anomaly
  /\ (events[Len(events)] = "analyze" => ~metrics.is_anomaly)
  /\ state # NoState =>
       /\ \A k \in 1..Len(state.history) : state.history[k] <= 0
       /\ \A k \in 1..Len(state.history) :
            RunningSum(state.history, k) <= RunningSum(state.history, k - 1)
       /\ state.log_likelihood_ratio <= 0

\* C26 as stated: when every response capture of a session fails, no iteration
\* is flagged as an anomaly, no LLR increment is positive, the cumulative
\* log-odds never increases and the session does not end in H1.
C26_FailedCapturesNeverH1 ==
  AllCapturesFailed
    => /\ NoEvidence
       /\ state.decision # "H1"
       /\ result.decision # "H1"

\* C26 amended: the same, the decision part for rates with alpha + beta < 1;
\* with alpha + beta >= 1 the upper threshold is not positive and the session
\* ends in H1 on evidence that is not positive.
C26_FailedCapturesNeverH1BelowOne ==
  AllCapturesFailed
    => /\ NoEvidence
       /\ cfg.sprt_alpha + cfg.sprt_beta < 100
            => (state.decision # "H1" /\ result.decision # "H1")

\* C26 witness: a session of two iterations whose captures both failed has
\* ended, with two negative LLR increments
C26_Witness ==
  /\ pc = "reported"
  /\ AllCapturesFailed
  /\ cfg.sprt_alpha + cfg.sprt_beta < 100
  /\ Len(history) >= 2
  /\ \A k \in 1..Len(state.history) : state.history[k] < 0
  /\ result.decision \in {"H0", "pending"}

(* ------------------------------- C27 ---------------------------------- *)

\* C27: when the response capture of an iteration is about to begin, the
\* transmission the iteration started is not running any more: it has exited
\* by itself, or it was terminated and waited for; when the wait runs out the
\* session ends there and no capture follows the transmission.
C27_TransmitEndsBeforeCapture ==
  /\ pc = "listen"
       => /\ tx # "running"
          /\ events[Len(events)] = "transmit"
  /\ error = "TimeoutExpired"
       => /\ pc = "aborted"
          /\ events[Len(events)] = "transmit"

\* C27 witness: in the second iteration the transmit process has exited and
\* the capture is about to begin
C27_Witness ==
  /\ pc = "listen"
  /\ iteration = 1
  /\ tx = "exited"
  /\ Count("transmit", events) = 2
  /\ Count("listen", events) = 1

(* ------------------------------- C28 ---------------------------------- *)

\* the warnings analyze and compute_llr_from_metrics log without a baseline
NoBaselineWarnings ==
  { k \in 1..Len(log) :
      log[k] \in { LogRecord("WARNING", "No baseline set. Anomaly detection disabled."),
                   LogRecord("WARNING", "No baseline. LLR set to 0.") } }

\* run() is in its main loop, or has been
LoopEntered == Occurs("select", events) \/ pc \in {"sprt_init", "select"}

\* C28: once run() has reached its main loop, the analyzer has a baseline, the
\* baseline was set from at least two successful captures before the first
\* iteration, and neither analyze nor compute_llr_from_metrics has taken its
\* no-baseline fallback.
C28_LoopHasBaseline ==
  LoopEntered
    => /\ HasBaseline(baseline_mean, baseline_std)
       /\ Len(baseline_samples) >= 2
       /\ Count("set_baseline", events) = 1
       /\ \A k \in 1..Len(events) :
            events[k] \in {"analyze", "update"}
              => \E j \in 1..(k - 1) : events[j] = "set_baseline"
       /\ NoBaselineWarnings = {}

\* C28 witness: an iteration has been analysed and its LLR computed after a
\* baseline of two captures, one capture of the baseline having failed
C28_Witness ==
  /\ Occurs("update", events)
  /\ Len(baseline_samples) = 2
  /\ Count("baseline_capture", events) = 3
  /\ HasBaseline(baseline_mean, baseline_std)
  /\ NoBaselineWarnings = {}

(* ------------------------------- C29 ---------------------------------- *)

\* run() is about to select the probe of its first iteration
FirstSelection == pc = "select" /\ iteration = 0

\* C29: whatever calls of run() came before, a call of run() begins with a
\* fresh session: at its first probe selection the SPRT state is pending with
\* step count 0 and no LLR history, the session history handed to the policy
\* is empty, and no probe has been used.
C29_RunStartsFresh ==
  FirstSelection
    => /\ state = NewState
       /\ history = <<>>
       /\ probe_history = <<>>

====
